---------------------------- MODULE Spec2Model ----------------------------
(***************************************************************************)
(* Model of src/app.py, the "Advanced ERD Explorer": the foreign-key graph *)
(* built from reflected metadata, the junction/core partition, the         *)
(* many-to-many table of a selected table, the schema statistics and the   *)
(* relationship path finder.                                               *)
(*                                                                         *)
(* Table names are sequences of one-character strings, so that the tests   *)
(* "'X' in name" and re.split(r'X+', name) are computed, not assumed.      *)
(***************************************************************************)
EXTENDS Integers, Sequences, FiniteSets, TLC

VARIABLES
    metadata,               \* reflected schema: sorted_tables and foreign keys
    pc,                     \* position of the script
    idx,                    \* index of the table loop of lines 48-81
    G,                      \* nx.DiGraph of foreign keys
    table_fk_counts,        \* defaultdict(int)
    table_relations,        \* defaultdict(list)
    junction_tables,        \* list
    core_tables,            \* list
    BG,                     \* G.to_undirected().to_directed()
    junction_relationships, \* defaultdict(list)
    tab1,                   \* what the table-details section rendered
    tab2,                   \* what the schema analysis rendered
    tab3,                   \* what the path finder rendered
    search                  \* the path search, when followed step by step

vars == <<metadata, pc, idx, G, table_fk_counts, table_relations,
          junction_tables, core_tables, BG, junction_relationships,
          tab1, tab2, tab3, search>>

---------------------------------------------------------------------------
(* Bounds of the model *)

\* largest number of foreign keys of an enumerated schema
MaxFKs == 2

---------------------------------------------------------------------------
(* Program constants *)

\* st.slider("Maximum Path Length", min_value=1, max_value=6)
MinDepth == 1
MaxDepth == 6
\* all_paths[:10]
MaxShown == 10
\* G.out_degree(n) > 2, G.in_degree(n) > 2
FanThreshold == 2
\* len(path) == 3
M2MPathLen == 3
\* the marker of 'X' in table_name and of re.split(r'X+', ...)
Marker == "X"

---------------------------------------------------------------------------
(* Sequence helpers *)

Range(s) == {s[i] : i \in DOMAIN s}

InSeq(x, s) == \E i \in DOMAIN s : s[i] = x

Pos(s, x) == CHOOSE i \in DOMAIN s : s[i] = x

Min(a, b) == IF a <= b THEN a ELSE b

\* dict.get(key, default)
Get(f, k, default) == IF k \in DOMAIN f THEN f[k] ELSE default

\* f with f[k] set to v, the key added when absent
Put(f, k, v) == [x \in DOMAIN f \cup {k} |-> IF x = k THEN v ELSE f[x]]

EmptyMap == [x \in {} |-> 0]

---------------------------------------------------------------------------
(* Table names *)

A == <<"A">>
B == <<"B">>
C == <<"C">>
D == <<"D">>
AXB == <<"A", "X", "B">>
AXXB == <<"A", "X", "X", "B">>
AX == <<"A", "X">>
AXBXA == <<"A", "X", "B", "X", "A">>

\* 'X' in name
HasMarker(name) == InSeq(Marker, name)

\* re.split(r'X+', name): the parts between the maximal runs of the marker
RECURSIVE SplitFrom(_, _, _, _)
SplitFrom(s, i, cur, inRun) ==
    IF i > Len(s) THEN <<cur>>
    ELSE IF s[i] = Marker
         THEN IF inRun THEN SplitFrom(s, i + 1, cur, TRUE)
              ELSE <<cur>> \o SplitFrom(s, i + 1, <<>>, TRUE)
         ELSE SplitFrom(s, i + 1, Append(cur, s[i]), FALSE)

ReSplit(name) == SplitFrom(name, 1, <<>>, FALSE)

---------------------------------------------------------------------------
(* Reflected metadata *)

FkColumns == {"c1", "c2"}
RefColumn == "id"

\* a ForeignKey of table `child`: child.fk_column references parent.ref_column
FK(child, col, parent) ==
    [child |-> child, fk_column |-> col, parent |-> parent, ref_column |-> RefColumn]

TableUniverse == {A, B, AXB}

FKUniverse(ts) == {FK(c, col, p) : c \in ts, col \in FkColumns, p \in ts}

RECURSIVE Perms(_)
Perms(S) ==
    IF S = {} THEN {<<>>}
    ELSE UNION {{<<x>> \o p : p \in Perms(S \ {x})} : x \in S}

\* sequences of at most n distinct elements of S
RECURSIVE SeqsUpTo(_, _)
SeqsUpTo(S, n) ==
    IF n = 0 THEN {<<>>}
    ELSE LET shorter == SeqsUpTo(S, n - 1)
         IN  shorter \cup
             {Append(s, x) : s \in {t \in shorter : Len(t) = n - 1}, x \in S}

Distinct(s) == \A i, j \in DOMAIN s : i # j => s[i] # s[j]

\* metadata.sorted_tables lists a referenced table before the tables that
\* reference it (self-references apart)
TopoOK(order, fks) ==
    \A k \in DOMAIN fks :
        fks[k].parent # fks[k].child =>
            Pos(order, fks[k].parent) < Pos(order, fks[k].child)

\* with a circular chain of foreign keys no such order exists and any order
\* is admitted
ValidOrder(order, fks) ==
    TopoOK(order, fks) \/ ~ \E o \in Perms(Range(order)) : TopoOK(o, fks)

\* foreign keys are listed table by table, in the order of the tables
Grouped(order, fks) ==
    \A i, j \in DOMAIN fks :
        i < j => Pos(order, fks[i].child) <= Pos(order, fks[j].child)

EnumeratedSchemas ==
    UNION {
        {[tables |-> order, fks |-> fks] :
            order \in Perms(ts),
            fks \in {s \in SeqsUpTo(FKUniverse(ts), MaxFKs) : Distinct(s)}}
        : ts \in (SUBSET TableUniverse) \ {{}}}

\* one foreign key between every two of five tables: more than ten simple
\* paths between two tables of the bidirectional graph
DenseSchema ==
    [tables |-> <<A, B, C, D, AXB>>,
     fks |-> <<FK(B, "c1", A),
               FK(C, "c1", A), FK(C, "c2", B),
               FK(D, "c1", A), FK(D, "c2", B), FK(D, "c1", C),
               FK(AXB, "c1", A), FK(AXB, "c2", B), FK(AXB, "c1", C),
               FK(AXB, "c2", D)>>]

\* marker names that do not split into two core tables, a self-reference and
\* two foreign keys on the same pair of tables
OddNamesSchema ==
    [tables |-> <<A, B, AXXB, AX, AXBXA>>,
     fks |-> <<FK(A, "c2", A),
               FK(AXXB, "c1", A), FK(AXXB, "c2", B),
               FK(AX, "c1", A), FK(AX, "c2", A),
               FK(AXBXA, "c1", B)>>]

\* a circular chain of foreign keys with a self-reference on it
CycleSchema ==
    [tables |-> <<A, B, C>>,
     fks |-> <<FK(A, "c1", C), FK(A, "c2", A), FK(B, "c1", A), FK(C, "c1", B)>>]

Schemas ==
    {s \in EnumeratedSchemas :
        Grouped(s.tables, s.fks) /\ ValidOrder(s.tables, s.fks)}
    \cup {DenseSchema, OddNamesSchema, CycleSchema}

\* inspector.get_foreign_keys(table)
get_foreign_keys(md, table) == SelectSeq(md.fks, LAMBDA fk : fk.child = table)

---------------------------------------------------------------------------
(* networkx.DiGraph *)

EmptyGraph == [nodes |-> <<>>, succ |-> EmptyMap, pred |-> EmptyMap, data |-> EmptyMap]

\* DiGraph.add_node: a node already present is left where it is
add_node(g, n) ==
    IF InSeq(n, g.nodes) THEN g
    ELSE [g EXCEPT !.nodes = Append(@, n),
                   !.succ = Put(@, n, <<>>),
                   !.pred = Put(@, n, <<>>)]

\* DiGraph.add_edge(u, v, **attr): the adjacency is a dict keyed by the
\* neighbour, so a second edge u -> v updates the attributes of the first
add_edge(g, u, v, attr) ==
    LET g1 == add_node(add_node(g, u), v)
        su == IF InSeq(v, g1.succ[u]) THEN g1.succ[u] ELSE Append(g1.succ[u], v)
        g2 == [g1 EXCEPT !.succ[u] = su]
        pv == IF InSeq(u, g2.pred[v]) THEN g2.pred[v] ELSE Append(g2.pred[v], u)
    IN  [g2 EXCEPT !.pred[v] = pv, !.data = Put(@, <<u, v>>, attr)]

\* G.edges()
Edges(g) == DOMAIN g.data

out_degree(g, n) == Len(g.succ[n])
in_degree(g, n) == Len(g.pred[n])
\* DiGraph.degree: in-degree plus out-degree
degree(g, n) == in_degree(g, n) + out_degree(g, n)


---------------------------------------------------------------------------
(* 3) Build the directed graph of FKs *)

\* the body of "for fk in tbl.foreign_keys", on the k-th foreign key of the
\* table and the ones after it; st holds G, table_fk_counts, table_relations
RECURSIVE AddForeignKeys(_, _, _)
AddForeignKeys(st, fks, k) ==
    IF k > Len(fks) THEN st
    ELSE LET fk == fks[k]
             parent == fk.parent
             child == fk.child
             c1 == Put(st.counts, parent, Get(st.counts, parent, 0) + 1)
             c2 == Put(c1, child, Get(c1, child, 0) + 1)
             r1 == Put(st.relations, parent, Append(Get(st.relations, parent, <<>>), fk))
             r2 == Put(r1, child, Append(Get(r1, child, <<>>), fk))
             g == add_edge(st.G, parent, child,
                           [fk_column |-> fk.fk_column, ref_column |-> fk.ref_column])
         IN  AddForeignKeys([G |-> g, counts |-> c2, relations |-> r2], fks, k + 1)

\* G.to_undirected(): an nx.Graph; each edge is entered in the adjacency of
\* both ends, the nodes and edges taken in the order G holds them
RECURSIVE UndirectedEdges(_, _, _, _)
UndirectedEdges(adj, g, i, j) ==
    IF i > Len(g.nodes) THEN adj
    ELSE LET u == g.nodes[i]
         IN  IF j > Len(g.succ[u]) THEN UndirectedEdges(adj, g, i + 1, 1)
             ELSE LET v == g.succ[u][j]
                      a1 == IF InSeq(v, adj[u]) THEN adj
                            ELSE [adj EXCEPT ![u] = Append(@, v)]
                      a2 == IF InSeq(u, a1[v]) THEN a1
                            ELSE [a1 EXCEPT ![v] = Append(@, u)]
                  IN  UndirectedEdges(a2, g, i, j + 1)

\* an undirected copy that enters each edge at its first end only
to_undirected_one_end(g) == [nodes |-> g.nodes, adj |-> g.succ]

to_undirected(g) ==
    [nodes |-> g.nodes,
     adj |-> UndirectedEdges([n \in Range(g.nodes) |-> <<>>], g, 1, 1)]

\* Graph.to_directed(): every edge of the undirected graph in both
\* directions; the successors of a node are its neighbours, in their order
to_directed(ug) == [nodes |-> ug.nodes, succ |-> ug.adj]

\* the directed graph as the path search reads it
Directed(g) == [nodes |-> g.nodes, succ |-> g.succ]

\* the body of "for jt in junction_tables" of lines 88-95, from the k-th on
RECURSIVE JunctionRelationships(_, _, _, _)
JunctionRelationships(rel, jts, core, k) ==
    IF k > Len(jts) THEN rel
    ELSE LET jt == jts[k]
             parts == ReSplit(jt)
         IN  IF Len(parts) = 2 /\ InSeq(parts[1], core) /\ InSeq(parts[2], core)
             THEN LET entity1 == parts[1]
                      entity2 == parts[2]
                      r1 == Put(rel, entity1,
                                Append(Get(rel, entity1, <<>>),
                                       [junction |-> jt, related_to |-> entity2]))
                      r2 == Put(r1, entity2,
                                Append(Get(r1, entity2, <<>>),
                                       [junction |-> jt, related_to |-> entity1]))
                  IN  JunctionRelationships(r2, jts, core, k + 1)
             ELSE JunctionRelationships(rel, jts, core, k + 1)

Blank == [shown |-> FALSE]

\* no search is being followed
Idle == [active |-> FALSE]

Init ==
    /\ metadata \in Schemas
    /\ pc = "gather"
    /\ idx = 1
    /\ G = EmptyGraph
    /\ table_fk_counts = EmptyMap
    /\ table_relations = EmptyMap
    /\ junction_tables = <<>>
    /\ core_tables = <<>>
    /\ BG = [nodes |-> <<>>, succ |-> EmptyMap]
    /\ junction_relationships = EmptyMap
    /\ tab1 = Blank
    /\ tab2 = Blank
    /\ tab3 = Blank
    /\ search = Idle

\* one iteration of "for tbl in metadata.sorted_tables"
GatherTable ==
    /\ pc = "gather"
    /\ idx <= Len(metadata.tables)
    /\ LET table_name == metadata.tables[idx]
           st == AddForeignKeys([G |-> add_node(G, table_name),
                                 counts |-> table_fk_counts,
                                 relations |-> table_relations],
                                get_foreign_keys(metadata, table_name), 1)
       IN  /\ G' = st.G
           /\ table_fk_counts' = st.counts
           /\ table_relations' = st.relations
           /\ IF HasMarker(table_name)
              THEN /\ junction_tables' = Append(junction_tables, table_name)
                   /\ core_tables' = core_tables
              ELSE /\ core_tables' = Append(core_tables, table_name)
                   /\ junction_tables' = junction_tables
    /\ idx' = idx + 1
    /\ UNCHANGED <<metadata, pc, BG, junction_relationships, tab1, tab2, tab3,
                   search>>

\* BG = G.to_undirected().to_directed()
BuildBG ==
    /\ pc = "gather"
    /\ idx > Len(metadata.tables)
    /\ BG' = to_directed(to_undirected(G))
    /\ pc' = "junctions"
    /\ UNCHANGED <<metadata, idx, G, table_fk_counts, table_relations,
                   junction_tables, core_tables, junction_relationships,
                   tab1, tab2, tab3, search>>

\* junction_relationships, lines 86-95
FindJunctionRelationships ==
    /\ pc = "junctions"
    /\ junction_relationships' =
           JunctionRelationships(EmptyMap, junction_tables, core_tables, 1)
    /\ pc' = "tabs"
    /\ UNCHANGED <<metadata, idx, G, table_fk_counts, table_relations,
                   junction_tables, core_tables, BG, tab1, tab2, tab3, search>>

---------------------------------------------------------------------------
(* Path search *)

\* a search that forgets the cutoff
RECURSIVE WalkNoCutoff(_, _, _, _, _)
WalkNoCutoff(succ, visited, i, target, cutoff) ==
    LET children == succ[visited[Len(visited)]]
    IN  IF i > Len(children) THEN <<>>
        ELSE LET child == children[i]
                 found ==
                     IF InSeq(child, visited) THEN <<>>
                     ELSE IF child = target THEN <<Append(visited, child)>>
                     ELSE WalkNoCutoff(succ, Append(visited, child), 1, target, cutoff)
             IN  found \o WalkNoCutoff(succ, visited, i + 1, target, cutoff)

\* nx.all_simple_paths(g, source, target, cutoff): depth-first over the
\* successors in adjacency order; `visited` is the path so far and i the
\* next successor of its last node to try.  A successor already on the path
\* is skipped, the target closes a path, another node is entered only while
\* the path so far has fewer than cutoff nodes.
RECURSIVE Walk(_, _, _, _, _)
Walk(succ, visited, i, target, cutoff) ==
    LET children == succ[visited[Len(visited)]]
    IN  IF i > Len(children) THEN <<>>
        ELSE LET child == children[i]
                 found ==
                     IF InSeq(child, visited) THEN <<>>
                     ELSE IF child = target THEN <<Append(visited, child)>>
                     ELSE IF Len(visited) < cutoff
                          THEN Walk(succ, Append(visited, child), 1, target, cutoff)
                          ELSE <<>>
             IN  found \o Walk(succ, visited, i + 1, target, cutoff)

all_simple_paths(g, source, target, cutoff) ==
    Walk(g.succ, <<source>>, 1, target, cutoff)

\* nx.all_simple_paths yields nothing when there is no path; it does not
\* raise nx.NetworkXNoPath
RaisesNoPath(g, source, target) == FALSE

\* an unstable sort: a path goes before the paths of its own length
InsertBeforeEqual(sorted, p) ==
    LET n == Cardinality({k \in DOMAIN sorted : Len(sorted[k]) < Len(p)})
    IN  SubSeq(sorted, 1, n) \o <<p>> \o SubSeq(sorted, n + 1, Len(sorted))

\* list.sort(key=len): stable, ascending
InsertByLen(sorted, p) ==
    LET n == Cardinality({k \in DOMAIN sorted : Len(sorted[k]) <= Len(p)})
    IN  SubSeq(sorted, 1, n) \o <<p>> \o SubSeq(sorted, n + 1, Len(sorted))

RECURSIVE SortFrom(_, _, _)
SortFrom(sorted, paths, k) ==
    IF k > Len(paths) THEN sorted
    ELSE SortFrom(InsertByLen(sorted, paths[k]), paths, k + 1)

SortByLen(paths) == SortFrom(<<>>, paths, 1)

\* breadth-first distance from the frontier to target in an undirected
\* graph, -1 when target is not reachable
RECURSIVE Distance(_, _, _, _, _)
Distance(adj, frontier, seen, target, d) ==
    IF target \in frontier THEN d
    ELSE LET next == UNION {Range(adj[n]) : n \in frontier} \ seen
         IN  IF next = {} THEN -1
             ELSE Distance(adj, next, seen \cup next, target, d + 1)

\* nx.has_path(UG, source, target)
has_path(ug, source, target) ==
    Distance(ug.adj, {source}, {source}, target, 0) >= 0

\* len(nx.shortest_path(UG, source, target))
shortest_path_len(ug, source, target) ==
    Distance(ug.adj, {source}, {source}, target, 0) + 1

---------------------------------------------------------------------------
(* tab3: Relationship Path Finder *)

Message(kind, n) == [msg |-> kind, n |-> n]

\* a handler without the same-table test
SameTableNever(source_table, target_table) == FALSE

\* if source_table == target_table
SameTable(source_table, target_table) == source_table = target_table

\* a rendering that looks for the marker in the first table of the path
\* instead of the intermediate one
RenderPathFirstTable(path) ==
    LET junction_tables_in_path == SelectSeq(path, HasMarker)
    IN  [path |-> path,
         hops |-> Len(path) - 1,
         junctions |-> junction_tables_in_path,
         many_to_many |->
             /\ junction_tables_in_path # <<>>
             /\ Len(path) = M2MPathLen
             /\ HasMarker(path[1])]

\* the body of "for i, path in enumerate(all_paths[:10])": what is rendered
\* for one path.  The diagram, the hop descriptors and the row count read
\* from the database are presentation and are left out.
RenderPath(path) ==
    LET junction_tables_in_path == SelectSeq(path, HasMarker)
    IN  [path |-> path,
         hops |-> Len(path) - 1,
         junctions |-> junction_tables_in_path,
         many_to_many |->
             /\ junction_tables_in_path # <<>>
             /\ Len(path) = M2MPathLen
             /\ HasMarker(path[2])]

\* all_paths[:10]
FirstPaths(paths) == SubSeq(paths, 1, Min(MaxShown, Len(paths)))

\* the handler of the "Find Relationship Paths" button
PathFinder(source_table, target_table, max_depth, include_junction) ==
    LET request == [shown |-> TRUE,
                    source |-> source_table,
                    target |-> target_table,
                    max_depth |-> max_depth,
                    include_junction |-> include_junction]
        none == [messages |-> <<>>, all_paths |-> <<>>, rendered |-> <<>>,
                 searches |-> 0]
    IN  IF SameTable(source_table, target_table)
        THEN request @@ [none EXCEPT !.messages = <<Message("SameTable", 0)>>]
        ELSE
        LET graph_to_use == IF include_junction THEN BG ELSE Directed(G)
        IN  IF RaisesNoPath(graph_to_use, source_table, target_table)
            THEN \* except nx.NetworkXNoPath
                 LET UG == to_undirected(G)
                     more ==
                         IF ~include_junction
                         THEN <<Message("TryJunction", 0)>>
                         ELSE IF has_path(UG, source_table, target_table)
                              THEN <<Message("ConnectedThrough",
                                             shortest_path_len(UG, source_table,
                                                               target_table) - 2)>>
                              ELSE <<>>
                 IN  request @@ [none EXCEPT
                         !.messages = <<Message("NoPath", 0)>> \o more,
                         !.searches = 1]
            ELSE
            LET found == all_simple_paths(graph_to_use, source_table,
                                          target_table, max_depth)
            IN  IF found # <<>>
                THEN LET all_paths == SortByLen(found)
                         first == FirstPaths(all_paths)
                     IN  request @@
                         [messages |-> <<Message("Found", Len(all_paths))>>,
                          all_paths |-> all_paths,
                          rendered |-> [i \in DOMAIN first |-> RenderPath(first[i])],
                          searches |-> 1]
                ELSE IF ~include_junction
                     THEN LET all_reverse_paths ==
                                  all_simple_paths(Directed(G), target_table,
                                                   source_table, max_depth)
                          IN  request @@ [none EXCEPT
                                  !.messages =
                                      <<Message("NoPath", 0)>> \o
                                      (IF all_reverse_paths # <<>>
                                       THEN <<Message("ReverseFound",
                                                      Len(all_reverse_paths)),
                                              Message("TryJunction", 0)>>
                                       ELSE <<>>),
                                  !.searches = 2]
                     ELSE request @@ [none EXCEPT
                              !.messages = <<Message("NoPath", 0)>>,
                              !.searches = 1]

---------------------------------------------------------------------------
(* tab1: Many-to-Many Relationships of the selected table *)

\* a row for every junction table of the name, whatever foreign keys it holds
M2MRowsUnchecked(md, selected, jt) ==
    LET parts == ReSplit(jt)
        other_entities == SelectSeq(parts, LAMBDA part : part # <<>> /\ part # selected)
        j_fks == get_foreign_keys(md, jt)
        fks_to_selected == \E k \in DOMAIN j_fks : j_fks[k].parent = selected
        fks_to_other ==
            \E k \in DOMAIN j_fks : InSeq(j_fks[k].parent, other_entities)
    IN  IF InSeq(selected, parts) /\ other_entities # <<>>
        THEN <<[junction_table |-> jt,
                related_to |-> other_entities,
                relationship |-> IF fks_to_selected /\ fks_to_other
                                 THEN "Complete" ELSE "Partial"]>>
        ELSE <<>>

\* the body of "for jt in junction_tables" of lines 286-309: the rows one
\* junction table adds to m2m_data
M2MRows(md, selected, jt) ==
    LET parts == ReSplit(jt)
        other_entities == SelectSeq(parts, LAMBDA part : part # <<>> /\ part # selected)
        j_fks == get_foreign_keys(md, jt)
        fks_to_selected == \E k \in DOMAIN j_fks : j_fks[k].parent = selected
        fks_to_other ==
            \E k \in DOMAIN j_fks : InSeq(j_fks[k].parent, other_entities)
    IN  IF /\ InSeq(selected, parts)
           /\ other_entities # <<>>
           /\ (fks_to_selected \/ fks_to_other)
        THEN <<[junction_table |-> jt,
                related_to |-> other_entities,
                relationship |-> IF fks_to_selected /\ fks_to_other
                                 THEN "Complete" ELSE "Partial"]>>
        ELSE <<>>

RECURSIVE M2MData(_, _, _, _)
M2MData(md, selected, jts, k) ==
    IF k > Len(jts) THEN <<>>
    ELSE M2MRows(md, selected, jts[k]) \o M2MData(md, selected, jts, k + 1)

\* the table-details section for a selected table
TableDetails(selected) ==
    [shown |-> TRUE,
     selected |-> selected,
     incoming |-> Len(G.pred[selected]),
     outgoing |-> Len(G.succ[selected]),
     m2m_section |-> ~HasMarker(selected),
     m2m_data |-> IF ~HasMarker(selected)
                  THEN M2MData(metadata, selected, junction_tables, 1)
                  ELSE <<>>]

---------------------------------------------------------------------------
(* tab2: Schema Analysis *)

\* sorted(G.nodes(), key=lambda x: G.degree(x), reverse=True): stable
InsertByDegree(g, sorted, n) ==
    LET k == Cardinality({j \in DOMAIN sorted : degree(g, sorted[j]) >= degree(g, n)})
    IN  SubSeq(sorted, 1, k) \o <<n>> \o SubSeq(sorted, k + 1, Len(sorted))

RECURSIVE SortNodesFrom(_, _, _)
SortNodesFrom(g, sorted, k) ==
    IF k > Len(g.nodes) THEN sorted
    ELSE SortNodesFrom(g, InsertByDegree(g, sorted, g.nodes[k]), k + 1)

MostConnectedShown == 5

\* entity_connections[entity] of lines 438-447
EntityConnections(entity) ==
    Cardinality(UNION {
        {part \in Range(ReSplit(junction_tables[k])) :
            part # <<>> /\ part # entity /\ InSeq(part, core_tables)}
        : k \in {j \in DOMAIN junction_tables :
                    InSeq(entity, ReSplit(junction_tables[j]))}})

SchemaStatistics ==
    LET byDegree == SortNodesFrom(G, <<>>, 1)
    IN  [shown |-> TRUE,
         total_tables |-> Len(G.nodes),
         total_relationships |-> Cardinality(Edges(G)),
         isolated_tables |-> SelectSeq(G.nodes, LAMBDA n : degree(G, n) = 0),
         most_connected |->
             SubSeq(byDegree, 1, Min(MostConnectedShown, Len(byDegree))),
         junction_count |-> Len(junction_tables),
         core_count |-> Len(core_tables),
         fanout_tables |->
             SelectSeq(G.nodes, LAMBDA n : out_degree(G, n) > FanThreshold),
         fanin_tables |->
             SelectSeq(G.nodes, LAMBDA n : in_degree(G, n) > FanThreshold),
         entity_connections |->
             [entity \in Range(core_tables) |-> EntityConnections(entity)]]

built == <<metadata, idx, G, table_fk_counts, table_relations,
           junction_tables, core_tables, BG, junction_relationships>>

\* a run of the script with the "Find Relationship Paths" button pressed
FindRelationshipPaths ==
    /\ pc = "tabs"
    /\ \E source_table \in Range(G.nodes), target_table \in Range(G.nodes),
          max_depth \in MinDepth..MaxDepth, include_junction \in BOOLEAN :
           tab3' = PathFinder(source_table, target_table, max_depth,
                              include_junction)
    /\ tab1' = Blank
    /\ tab2' = Blank
    /\ pc' = "done"
    /\ UNCHANGED <<built, search>>

\* a run of the script with a table chosen in "Focus on table"
ShowTableDetails ==
    /\ pc = "tabs"
    /\ \E selected \in Range(G.nodes) : tab1' = TableDetails(selected)
    /\ tab2' = Blank
    /\ tab3' = Blank
    /\ pc' = "done"
    /\ UNCHANGED <<built, search>>

\* a run of the script read on the "Schema Analysis" tab
ShowSchemaAnalysis ==
    /\ pc = "tabs"
    /\ tab2' = SchemaStatistics
    /\ tab1' = Blank
    /\ tab3' = Blank
    /\ pc' = "done"
    /\ UNCHANGED <<built, search>>

\* the next interaction runs the script again from the top, on the same
\* database
Rerun ==
    /\ pc = "done"
    /\ pc' = "gather"
    /\ idx' = 1
    /\ G' = EmptyGraph
    /\ table_fk_counts' = EmptyMap
    /\ table_relations' = EmptyMap
    /\ junction_tables' = <<>>
    /\ core_tables' = <<>>
    /\ BG' = [nodes |-> <<>>, succ |-> EmptyMap]
    /\ junction_relationships' = EmptyMap
    /\ tab1' = Blank
    /\ tab2' = Blank
    /\ tab3' = Blank
    /\ UNCHANGED <<metadata, search>>

Next ==
    \/ GatherTable
    \/ BuildBG
    \/ FindJunctionRelationships
    \/ ShowTableDetails
    \/ ShowSchemaAnalysis
    \/ FindRelationshipPaths
    \/ Rerun

Spec == Init /\ [][Next]_vars

---------------------------------------------------------------------------
(* The path search followed step by step *)

Top(stack) == stack[Len(stack)]
Pop(stack) == SubSeq(stack, 1, Len(stack) - 1)

\* a loop that enters a table again although it is on the path already
SearchLoopRevisiting(st, succ) ==
    LET children == Top(st.stack)
    IN  IF children = <<>>
        THEN [st EXCEPT !.stack = Pop(@), !.visited = Pop(@)]
        ELSE LET child == Head(children)
                 rest == [st EXCEPT !.stack[Len(st.stack)] = Tail(children)]
             IN  IF Len(st.visited) < st.cutoff
                 THEN IF child = st.target
                      THEN [rest EXCEPT !.found = Append(@, Append(st.visited, child))]
                      ELSE [rest EXCEPT !.visited = Append(@, child),
                                        !.stack = Append(@, succ[child])]
                 ELSE [st EXCEPT
                          !.found =
                              IF st.target \in {child} \cup Range(Tail(children))
                              THEN Append(@, Append(st.visited, st.target))
                              ELSE @,
                          !.stack = Pop(@),
                          !.visited = Pop(@)]

\* one turn of the loop "while stack:" of the generator behind
\* nx.all_simple_paths: stack holds, for every table of the path so far, the
\* successors not yet tried; visited is the path so far
SearchLoop(st, succ) ==
    LET children == Top(st.stack)
    IN  IF children = <<>>
        THEN \* child is None
             [st EXCEPT !.stack = Pop(@), !.visited = Pop(@)]
        ELSE LET child == Head(children)
                 rest == [st EXCEPT !.stack[Len(st.stack)] = Tail(children)]
             IN  IF Len(st.visited) < st.cutoff
                 THEN IF InSeq(child, st.visited)
                      THEN rest
                      ELSE IF child = st.target
                           THEN [rest EXCEPT
                                    !.found = Append(@, Append(st.visited, child))]
                           ELSE [rest EXCEPT
                                    !.visited = Append(@, child),
                                    !.stack = Append(@, succ[child])]
                 ELSE \* len(visited) == cutoff
                      [st EXCEPT
                          !.found =
                              IF st.target \in
                                     ({child} \cup Range(Tail(children)))
                                         \ Range(st.visited)
                              THEN Append(@, Append(st.visited, st.target))
                              ELSE @,
                          !.stack = Pop(@),
                          !.visited = Pop(@)]

\* the button is pressed for two different tables: the generator starts on
\* the chosen graph
StartSearch ==
    /\ pc = "tabs"
    /\ \E source_table \in Range(G.nodes), target_table \in Range(G.nodes),
          max_depth \in MinDepth..MaxDepth, include_junction \in BOOLEAN :
           /\ ~SameTable(source_table, target_table)
           /\ search' =
                  [active |-> TRUE,
                   source |-> source_table,
                   target |-> target_table,
                   cutoff |-> max_depth,
                   include_junction |-> include_junction,
                   stack |-> <<(IF include_junction THEN BG ELSE Directed(G))
                                   .succ[source_table]>>,
                   visited |-> <<source_table>>,
                   found |-> <<>>]
    /\ pc' = "searching"
    /\ UNCHANGED <<built, tab1, tab2, tab3>>

\* one turn of the loop
SearchStep ==
    /\ pc = "searching"
    /\ search.stack # <<>>
    /\ search' = SearchLoop(search,
                            (IF search.include_junction THEN BG ELSE Directed(G)).succ)
    /\ UNCHANGED <<built, pc, tab1, tab2, tab3>>

\* the stack is empty: the generator is exhausted and list(...) hands the
\* paths it produced to the handler
FinishSearch ==
    /\ pc = "searching"
    /\ search.stack = <<>>
    /\ pc' = "found"
    /\ UNCHANGED <<built, search, tab1, tab2, tab3>>

\* the handler sorts and renders what the search returned
RenderSearch ==
    /\ pc = "found"
    /\ tab3' = PathFinder(search.source, search.target, search.cutoff,
                          search.include_junction)
    /\ tab1' = Blank
    /\ tab2' = Blank
    /\ pc' = "done"
    /\ UNCHANGED <<built, search>>

SearchNext ==
    \/ GatherTable
    \/ BuildBG
    \/ FindJunctionRelationships
    \/ StartSearch
    \/ SearchStep
    \/ FinishSearch
    \/ RenderSearch

\* the generator runs in the script's single thread with nothing to wait
\* for: a turn of its loop that can be taken is taken, and so is its return
SearchSpec ==
    Init /\ [][SearchNext]_vars /\ WF_vars(SearchStep) /\ WF_vars(FinishSearch)

---------------------------------------------------------------------------
(* What the claims speak of *)

\* the script has built G, BG and the junction lists
Built == pc \in {"tabs", "done"}

Tables == Range(metadata.tables)
ForeignKeys == Range(metadata.fks)

\* the graph the path finder searched
ChosenGraph == IF tab3.include_junction THEN BG ELSE Directed(G)

\* the search ran: the request was not for one and the same table
Searched == tab3.shown /\ tab3.source # tab3.target

\* the paths in the order the search found them
Discovered ==
    all_simple_paths(ChosenGraph, tab3.source, tab3.target, tab3.max_depth)

IsEdge(g, u, v) == InSeq(v, g.succ[u])

\* every simple path of g from s to t of at most d hops, by definition:
\* the sequences of distinct tables, each joined to the next by an edge
SimplePaths(g, s, t, d) ==
    {p \in UNION {[1..n -> Range(g.nodes)] : n \in 2..Min(d + 1, Len(g.nodes))} :
        /\ p[1] = s
        /\ p[Len(p)] = t
        /\ Distinct(p)
        /\ \A i \in 1..(Len(p) - 1) : IsEdge(g, p[i], p[i + 1])}

RenderedPaths == [i \in DOMAIN tab3.rendered |-> tab3.rendered[i].path]

HasMessage(kind) == \E i \in DOMAIN tab3.messages : tab3.messages[i].msg = kind

---------------------------------------------------------------------------
(* C1 *)

\* C1: every path the search returns has at most max_depth hops, visits no
\* table twice, starts at the source and ends at the target, and the list is
\* in non-decreasing order of hop count.
C1_PathsBoundedSimpleSorted ==
    Searched =>
        \A i \in DOMAIN tab3.all_paths :
            LET p == tab3.all_paths[i]
            IN  /\ Len(p) - 1 <= tab3.max_depth
                /\ Distinct(p)
                /\ p[1] = tab3.source
                /\ p[Len(p)] = tab3.target
                /\ i > 1 => Len(tab3.all_paths[i - 1]) <= Len(p)

\* a search that found a path of exactly max_depth hops, in a graph that has
\* longer simple paths between the two tables, and whose list had to be
\* reordered by the sort
C1_Witness ==
    /\ Searched
    /\ \E i \in DOMAIN tab3.all_paths : Len(tab3.all_paths[i]) - 1 = tab3.max_depth
    /\ Len(Discovered) < Len(all_simple_paths(ChosenGraph, tab3.source,
                                               tab3.target, MaxDepth))
    /\ tab3.all_paths # Discovered

---------------------------------------------------------------------------
(* C6 *)

\* C6: a request whose source and target are the same table gets the
\* same-table warning and nothing else: no search is run, forward or reverse,
\* in either graph mode, and the warning is not the no-path warning; a
\* request for two different tables never gets the same-table warning.
C6_SameTableRejected ==
    tab3.shown =>
        IF tab3.source = tab3.target
        THEN /\ tab3.messages = <<Message("SameTable", 0)>>
             /\ tab3.searches = 0
             /\ tab3.all_paths = <<>>
             /\ tab3.rendered = <<>>
             /\ ~HasMessage("NoPath")
        ELSE /\ ~HasMessage("SameTable")
             /\ tab3.searches >= 1

\* the same table was asked for, in the bidirectional graph, and the table
\* has relationships the search could have walked
C6_Witness ==
    /\ tab3.shown
    /\ tab3.source = tab3.target
    /\ tab3.include_junction
    /\ BG.succ[tab3.source] # <<>>

---------------------------------------------------------------------------
(* C2 *)

\* the foreign keys of table child that reference table parent
FKsBetween(parent, child) ==
    {fk \in ForeignKeys : fk.parent = parent /\ fk.child = child}

\* the edges of G from parent to child
EdgesBetween(parent, child) == {e \in Edges(G) : e = <<parent, child>>}

\* C2 as stated: in the built graph the number of edges from a parent to a
\* child is the number of foreign-key column pairs between them, and every
\* foreign key has an edge that keeps its fk_column and ref_column.
C2_Original_OneEdgePerForeignKey ==
    Built =>
        \A parent \in Tables, child \in Tables :
            /\ Cardinality(EdgesBetween(parent, child))
                   = Cardinality(FKsBetween(parent, child))
            /\ \A fk \in FKsBetween(parent, child) :
                   /\ <<parent, child>> \in Edges(G)
                   /\ G.data[<<parent, child>>]
                          = [fk_column |-> fk.fk_column, ref_column |-> fk.ref_column]

---------------------------------------------------------------------------
(* C3 *)

\* the ends of edges of G that lie on table t: a self-reference touches its
\* table at both ends
EdgeEndsOn(t) ==
    Cardinality({e \in Edges(G) : e[1] = t}) + Cardinality({e \in Edges(G) : e[2] = t})

\* C3 as stated: after the build the connection counter of every table is
\* the degree of the table in G, which is the number of edge ends on it.
C3_Original_CounterIsDegree ==
    Built =>
        \A t \in Tables :
            /\ Get(table_fk_counts, t, 0) = degree(G, t)
            /\ degree(G, t) = EdgeEndsOn(t)

---------------------------------------------------------------------------
(* C4 *)

\* a junction in the sense of the claim: the name has the marker, splits
\* into exactly two non-empty parts, and both parts are tables without the
\* marker
GenuineJunction(t) ==
    LET parts == ReSplit(t)
    IN  /\ HasMarker(t)
        /\ Len(parts) = 2
        /\ parts[1] # <<>> /\ parts[2] # <<>>
        /\ parts[1] \in {c \in Tables : ~HasMarker(c)}
        /\ parts[2] \in {c \in Tables : ~HasMarker(c)}

\* C4 as stated: the tables counted as junctions are exactly the genuine
\* junctions and every other table is counted as core, in the lists and in
\* the metrics of the schema analysis.
C4_Original_FailedDecompositionIsCore ==
    /\ Built =>
           /\ Range(junction_tables) = {t \in Tables : GenuineJunction(t)}
           /\ Range(core_tables) = {t \in Tables : ~GenuineJunction(t)}
    /\ tab2.shown =>
           /\ tab2.junction_count = Cardinality({t \in Tables : GenuineJunction(t)})
           /\ tab2.core_count = Cardinality({t \in Tables : ~GenuineJunction(t)})

---------------------------------------------------------------------------
(* C5 *)

\* the tables that table jt references
ReferredBy(jt) == {fk.parent : fk \in {f \in ForeignKeys : f.child = jt}}

\* the non-empty parts of the name of jt other than e
OtherParts(jt, e) == {part \in Range(ReSplit(jt)) : part # <<>> /\ part # e}

\* the name of jt decomposes into a pair that includes e: exactly two
\* parts, both non-empty, e one of them
PairIncludes(jt, e) ==
    LET parts == ReSplit(jt)
    IN  /\ HasMarker(jt)
        /\ Len(parts) = 2
        /\ parts[1] # <<>> /\ parts[2] # <<>>
        /\ e \in {parts[1], parts[2]}

\* the partner of e in the pair of jt
PartnerOf(e, jt) ==
    LET parts == ReSplit(jt)
    IN  IF parts[1] = e THEN parts[2] ELSE parts[1]

M2MRowOf(jt) ==
    {tab1.m2m_data[i] : i \in {k \in DOMAIN tab1.m2m_data :
                                  tab1.m2m_data[k].junction_table = jt}}

\* the many-to-many section was rendered for a core table
M2MShown == tab1.shown /\ tab1.m2m_section

\* C5 as stated: for a core entity the analysis has an entry for every
\* junction whose decomposed pair includes the entity and for no other one;
\* the entry is Complete exactly when the junction holds a foreign key to the
\* entity and one to the partner, and Partial in every other case.
C5_Original_EntryForEveryJunction ==
    M2MShown =>
        /\ {tab1.m2m_data[i].junction_table : i \in DOMAIN tab1.m2m_data}
               = {jt \in Tables : PairIncludes(jt, tab1.selected)}
        /\ \A i \in DOMAIN tab1.m2m_data :
               LET row == tab1.m2m_data[i]
                   refs == ReferredBy(row.junction_table)
               IN  row.relationship =
                       IF /\ tab1.selected \in refs
                          /\ PartnerOf(tab1.selected, row.junction_table) \in refs
                       THEN "Complete" ELSE "Partial"

\* table jt gets an entry for entity e: e is a part of its name, the name
\* has another non-empty part, and jt holds a foreign key to e or to one of
\* the other parts
GetsEntry(jt, e) ==
    /\ HasMarker(jt)
    /\ e \in Range(ReSplit(jt))
    /\ OtherParts(jt, e) # {}
    /\ ({e} \cup OtherParts(jt, e)) \cap ReferredBy(jt) # {}

\* C5 amended: for a core entity E the analysis has exactly one entry for
\* every marker-named table whose name, split on runs of the marker, has E
\* among its parts and at least one other non-empty part, and which holds at
\* least one foreign key referencing E or one of those other parts; no other
\* table has an entry, so a junction that holds neither foreign key is left
\* out.  The entry is Complete exactly when the junction holds at least one
\* foreign key referencing E and at least one referencing another part of
\* its name, and Partial otherwise.
C5_EntryWhenSomeForeignKey ==
    M2MShown =>
        /\ \A jt \in Tables :
               Cardinality(M2MRowOf(jt)) = IF GetsEntry(jt, tab1.selected) THEN 1 ELSE 0
        /\ Len(tab1.m2m_data)
               = Cardinality({jt \in Tables : GetsEntry(jt, tab1.selected)})
        /\ \A i \in DOMAIN tab1.m2m_data :
               LET row == tab1.m2m_data[i]
                   refs == ReferredBy(row.junction_table)
               IN  /\ Range(row.related_to)
                          = OtherParts(row.junction_table, tab1.selected)
                   /\ row.relationship =
                          IF /\ tab1.selected \in refs
                             /\ OtherParts(row.junction_table, tab1.selected) \cap refs # {}
                          THEN "Complete" ELSE "Partial"

\* a core table with a Complete entry and a Partial entry, and a junction of
\* its name that got no entry
C5_Witness ==
    /\ M2MShown
    /\ \E i \in DOMAIN tab1.m2m_data : tab1.m2m_data[i].relationship = "Complete"
    /\ \E i \in DOMAIN tab1.m2m_data : tab1.m2m_data[i].relationship = "Partial"
    /\ \E jt \in Tables :
           /\ HasMarker(jt)
           /\ tab1.selected \in Range(ReSplit(jt))
           /\ M2MRowOf(jt) = {}

---------------------------------------------------------------------------
(* C7 *)

\* the result of the search was empty
NoPathFound == Searched /\ tab3.all_paths = <<>>

\* C7 as stated: whenever the search finds no path and the two tables are
\* connected in the undirected closure of G, the minimum number of
\* intermediate tables between them is reported.
C7_Original_ClosureReported ==
    (NoPathFound /\ has_path(to_undirected(G), tab3.source, tab3.target)) =>
        \E i \in DOMAIN tab3.messages :
            tab3.messages[i] =
                Message("ConnectedThrough",
                        shortest_path_len(to_undirected(G), tab3.source,
                                          tab3.target) - 2)

---------------------------------------------------------------------------
(* C8 *)

\* the tables are joined in the chosen graph, but only by paths of more than
\* max_depth hops
OnlyLongerPaths ==
    /\ NoPathFound
    /\ all_simple_paths(ChosenGraph, tab3.source, tab3.target,
                        Len(ChosenGraph.nodes)) # <<>>

\* the tables are not connected at all
NotConnected ==
    /\ NoPathFound
    /\ ~has_path(to_undirected(G), tab3.source, tab3.target)

\* what is rendered for two tables that are not connected at all
NoPathAtAnyDepth == <<Message("NoPath", 0)>>

\* C8 as stated: an empty result is reported in two distinguishable ways;
\* tables that are not connected at all get the one, tables connected only
\* by paths longer than max_depth get another.
C8_Original_TwoNoPathOutcomes ==
    /\ NotConnected => tab3.messages = NoPathAtAnyDepth
    /\ OnlyLongerPaths => tab3.messages # NoPathAtAnyDepth

---------------------------------------------------------------------------
(* C10 *)

\* j is a junction between s and t, verified: its name decomposes into the
\* pair {s, t} of core tables and it holds foreign keys into both
VerifiedJunction(j, s, t) ==
    LET parts == ReSplit(j)
    IN  /\ HasMarker(j)
        /\ Len(parts) = 2
        /\ {parts[1], parts[2]} = {s, t}
        /\ InSeq(s, core_tables) /\ InSeq(t, core_tables)
        /\ s \in ReferredBy(j)
        /\ t \in ReferredBy(j)

\* C10 as stated: a reported path is flagged as a many-to-many relationship
\* only when it has exactly 2 hops and its intermediate table is a verified
\* junction between source and target.
C10_Original_FlagOnlyVerifiedJunction ==
    Searched =>
        \A i \in DOMAIN tab3.rendered :
            tab3.rendered[i].many_to_many =>
                /\ tab3.rendered[i].hops = 2
                /\ VerifiedJunction(tab3.rendered[i].path[2], tab3.source, tab3.target)

---------------------------------------------------------------------------
(* C9 *)

\* the places of the paths of n nodes in a list of paths
PlacesOfLen(paths, n) == {i \in DOMAIN paths : Len(paths[i]) = n}

\* paths of equal hop count stand in `sorted` in the order they have in
\* `found`
TiesKeepOrder(sorted, found) ==
    \A i, j \in DOMAIN sorted :
        (i < j /\ Len(sorted[i]) = Len(sorted[j])) =>
            \E a, b \in DOMAIN found :
                a < b /\ found[a] = sorted[i] /\ found[b] = sorted[j]

\* C9 as stated: every simple path from source to target of at most
\* max_depth hops is among the paths reported (rendered), whatever their
\* number, and paths of equal hop count are reported in discovery order.
C9_Original_AllPathsReported ==
    Searched =>
        /\ SimplePaths(ChosenGraph, tab3.source, tab3.target, tab3.max_depth)
               = Range(RenderedPaths)
        /\ TiesKeepOrder(RenderedPaths, Discovered)

\* C9 amended: the sorted list all_paths holds every simple path from source
\* to target of at most max_depth hops exactly once and the success message
\* counts them all; paths of equal hop count keep their discovery order; the
\* paths reported one by one are the first 10 of that list, and the paths
\* after the tenth are not reported.
C9_SortedListCompleteFirstTenReported ==
    Searched =>
        /\ Range(tab3.all_paths)
               = SimplePaths(ChosenGraph, tab3.source, tab3.target, tab3.max_depth)
        /\ Distinct(tab3.all_paths)
        /\ TiesKeepOrder(tab3.all_paths, Discovered)
        /\ tab3.all_paths # <<>> =>
               tab3.messages = <<Message("Found", Len(tab3.all_paths))>>
        /\ Len(RenderedPaths) = Min(MaxShown, Len(tab3.all_paths))
        /\ \A i \in DOMAIN RenderedPaths : RenderedPaths[i] = tab3.all_paths[i]

\* more than ten paths were found, several of the same hop count, and the
\* sort moved some of them
C9_Witness ==
    /\ Searched
    /\ Len(tab3.all_paths) > MaxShown
    /\ Len(tab3.rendered) = MaxShown
    /\ \E i, j \in DOMAIN tab3.all_paths :
           i # j /\ Len(tab3.all_paths[i]) = Len(tab3.all_paths[j])
    /\ tab3.all_paths # Discovered

---------------------------------------------------------------------------
(* C11 *)

\* the schema is two core tables A and B and the junction AXB, which holds
\* foreign keys to both; there is no other relationship
JunctionScenario ==
    /\ Tables = {A, B, AXB}
    /\ \A fk \in ForeignKeys : fk.child = AXB /\ fk.parent \in {A, B}
    /\ ReferredBy(AXB) = {A, B}

\* the path from A to B was asked for with max_depth 2
ScenarioRequest ==
    /\ Built
    /\ JunctionScenario
    /\ Searched
    /\ tab3.source = A
    /\ tab3.target = B
    /\ tab3.max_depth = 2

\* exactly one path, A, AXB, B, of 2 hops, flagged as many-to-many
OneFlaggedJunctionPath ==
    /\ tab3.all_paths = <<<<A, AXB, B>>>>
    /\ Len(tab3.rendered) = 1
    /\ tab3.rendered[1].path = <<A, AXB, B>>
    /\ tab3.rendered[1].hops = 2
    /\ tab3.rendered[1].many_to_many

\* C11 as stated: in the junction scenario the path search from A to B with
\* max_depth 2 returns exactly one path, A, AXB, B, of 2 hops, flagged as a
\* many-to-many relationship.
C11_Original_OnePathInScenario ==
    ScenarioRequest => OneFlaggedJunctionPath

\* C11 amended: in the junction scenario the path search from A to B with
\* max_depth 2 over the bidirectional graph (Include Junction Tables
\* checked, the default) returns exactly one path, A, AXB, B, of 2 hops,
\* flagged as a many-to-many relationship; over the strict directed graph,
\* whose edges both point into AXB, it returns no path.
C11_OnePathInBidirectionalMode ==
    ScenarioRequest =>
        IF tab3.include_junction
        THEN OneFlaggedJunctionPath
        ELSE tab3.all_paths = <<>> /\ tab3.rendered = <<>>

\* the scenario was searched over the bidirectional graph and the path was
\* flagged
C11_Witness ==
    /\ ScenarioRequest
    /\ tab3.include_junction
    /\ tab3.rendered # <<>>
    /\ tab3.rendered[1].many_to_many

---------------------------------------------------------------------------
(* C12 *)

\* the relationships in which table t is the referencing side: the foreign
\* keys it owns
Referencing(t) == {fk \in ForeignKeys : fk.child = t}

\* the relationships in which table t is the referenced side
Referenced(t) == {fk \in ForeignKeys : fk.parent = t}

\* C12 as stated: the fan-out list holds exactly the tables that are the
\* referencing side of more than 2 relationships, the fan-in list exactly
\* the tables that are the referenced side of more than 2 relationships.
C12_Original_FanOutIsReferencingSide ==
    tab2.shown =>
        /\ Range(tab2.fanout_tables)
               = {t \in Tables : Cardinality(Referencing(t)) > FanThreshold}
        /\ Range(tab2.fanin_tables)
               = {t \in Tables : Cardinality(Referenced(t)) > FanThreshold}

---------------------------------------------------------------------------
(* C14 *)

\* what the handler returns for the request of tab3 over the other graph
ReturnedOver(include_junction) ==
    PathFinder(tab3.source, tab3.target, tab3.max_depth, include_junction).all_paths

\* C14: every path the search returns over the strict directed graph is
\* returned by the search over the bidirectional graph with the same source,
\* target and max_depth, and BG has an edge u -> v exactly when G has the
\* edge u -> v or the edge v -> u.
C14_DirectedPathsAmongBidirectional ==
    /\ (tab3.shown /\ ~tab3.include_junction) =>
           Range(tab3.all_paths) \subseteq Range(ReturnedOver(TRUE))
    /\ (tab3.shown /\ tab3.include_junction) =>
           Range(ReturnedOver(FALSE)) \subseteq Range(tab3.all_paths)
    /\ pc \in {"tabs", "done"} =>
           /\ Range(BG.nodes) = Range(G.nodes)
           /\ \A u \in Range(G.nodes), v \in Range(G.nodes) :
                  IsEdge(BG, u, v) <=> (IsEdge(Directed(G), u, v) \/ IsEdge(Directed(G), v, u))

\* a directed search that found a path, in a graph where the bidirectional
\* search finds more, and where some edge of G has no reverse edge in G
C14_Witness ==
    /\ Searched
    /\ ~tab3.include_junction
    /\ tab3.all_paths # <<>>
    /\ Len(ReturnedOver(TRUE)) > Len(tab3.all_paths)
    /\ \E u \in Range(G.nodes), v \in Range(G.nodes) :
           IsEdge(Directed(G), u, v) /\ ~IsEdge(Directed(G), v, u)

---------------------------------------------------------------------------
(* C13 *)

\* while the search runs, the path so far and every path found so far visit
\* no table twice and stay within the cutoff
SearchSimple ==
    search.active =>
        /\ Distinct(search.visited)
        /\ Len(search.visited) <= search.cutoff
        /\ \A i \in DOMAIN search.found :
               /\ Distinct(search.found[i])
               /\ Len(search.found[i]) - 1 <= search.cutoff

\* what the handler returns is what the search found, sorted, and holds no
\* path that visits a table twice
ReturnedSimple ==
    (pc = "done" /\ search.active) =>
        /\ tab3.all_paths = SortByLen(search.found)
        /\ \A i \in DOMAIN tab3.all_paths : Distinct(tab3.all_paths[i])

\* C13: on every graph, with self-referencing foreign keys and circular
\* chains of foreign keys or without, and in either graph mode, a path search
\* that has started comes to its end, and the paths it finds and returns
\* visit no table twice.
C13_SearchTerminatesSimple ==
    /\ [](SearchSimple /\ ReturnedSimple)
    /\ (pc = "searching") ~> (pc = "found")

\* a search over a graph with a self-reference and a circular chain of
\* foreign keys through the source has ended with a path found, after a
\* table already on the path was met again
C13_Witness ==
    /\ pc = "done"
    /\ search.active
    /\ search.found # <<>>
    /\ IsEdge(Directed(G), search.source, search.source)
    /\ \E p \in SimplePaths(Directed(G), search.source, search.target, MaxDepth) :
           IsEdge(Directed(G), search.target, search.source)

===========================================================================
